---- MODULE Spec2Model ----
(***************************************************************************)
(* The card reordering subsystem of the project tracker: the store of      *)
(* cards, the move endpoint (app/api/cards/move/route.ts), the card list   *)
(* endpoint (lib/db.ts getCardsByBoard) and the board page's               *)
(* handleMoveCard / loadCards (the optimistic update and the reload).      *)
(***************************************************************************)
EXTENDS Integers, Sequences, FiniteSets, TLC

\* ------------------------------------------------------------------ bounds
\* Number of cards in the store the move endpoint is checked on.
MaxCards == 3
\* Number of boards.
NumBoards == 2
\* Number of cards in the store of a board page session.
PageCards == 2
\* Number of drops (handleMoveCard invocations) made one after the other.
MaxDrops == 1
\* Number of drops that may overlap in a session.
MaxOverlap == 2

CardIds == 1..MaxCards
Boards == 1..NumBoards
\* An id that AUTOINCREMENT has not handed out: no row of the store has it.
UnknownId == MaxCards + 1

\* lib/db.ts Card.priority and Card.status
Priorities == {"high", "medium", "low"}
Statuses == {"not_started", "in_progress", "done"}

\* ------------------------------------------------------------------ state
VARIABLES
  store,     \* the cards table: card id -> row
  req,       \* the body of the last request the move endpoint handled
  resp,      \* its response: HTTP status and the SQL statements it issued
  cards,     \* the board page's React state `cards` (an array of rows)
  tasks,     \* the handleMoveCard invocations of the page, by drop number
  run,       \* the move handler executing statement by statement
  lastId,    \* sqlite_sequence of the cards table: the largest id handed out
  drag,      \* the Board's drag: its state `activeCard` and the last drop target
  handlers   \* the move handlers that run concurrently, in order of arrival

vars == <<store, req, resp, cards, tasks, run, lastId, drag, handlers>>

\* ------------------------------------------------------ the cards table
\* title, description and assignee are payload: one fixed value per card.
Row(i, b, p, st, pos) ==
  [id |-> i, board_id |-> b, title |-> i, description |-> i + 10,
   assignee |-> i + 20, priority |-> p, status |-> st, position |-> pos]

\* The cards of one column group (board, priority).
Group(s, b, p) == {i \in DOMAIN s : s[i].board_id = b /\ s[i].priority = p}

\* The priorities found in a store (a column group exists for each).
PrioritiesOf(s) == Priorities \cup {s[i].priority : i \in DOMAIN s}

\* The position checker of the Position Index Model: every column group's
\* positions are exactly 0..n-1, without duplicates.
Dense(s) ==
  \A b \in Boards : \A p \in PrioritiesOf(s) :
    LET g == Group(s, b, p) IN
      /\ {s[i].position : i \in g} = 0..(Cardinality(g) - 1)
      /\ \A i, j \in g : s[i].position = s[j].position => i = j

\* ------------------------------------------------- the move endpoint (PUT)
\* route.ts:16  SELECT priority, position FROM cards WHERE id = ?
SelectCard(s, cardId) ==
  IF cardId \in DOMAIN s
  THEN <<[priority |-> s[cardId].priority, position |-> s[cardId].position]>>
  ELSE <<>>

\* DecrementOldColumn without the position > ? condition.
DecrementOldColumnAll(s, boardId, oldPriority, oldPosition) ==
  [i \in DOMAIN s |->
     IF s[i].board_id = boardId /\ s[i].priority = oldPriority
     THEN [s[i] EXCEPT !.position = @ - 1] ELSE s[i]]

\* route.ts:34  UPDATE cards SET position = position - 1
\*              WHERE board_id = ? AND priority = ? AND position > ?
DecrementOldColumn(s, boardId, oldPriority, oldPosition) ==
  [i \in DOMAIN s |->
     IF s[i].board_id = boardId /\ s[i].priority = oldPriority
        /\ s[i].position > oldPosition
     THEN [s[i] EXCEPT !.position = @ - 1] ELSE s[i]]

\* IncrementNewColumn with position > ? in place of position >= ?.
IncrementNewColumnStrict(s, boardId, newPriority, newPosition) ==
  [i \in DOMAIN s |->
     IF s[i].board_id = boardId /\ s[i].priority = newPriority
        /\ s[i].position > newPosition
     THEN [s[i] EXCEPT !.position = @ + 1] ELSE s[i]]

\* IncrementNewColumn leaving the completed cards where they are.
IncrementNewColumnSkippingDone(s, boardId, newPriority, newPosition) ==
  [i \in DOMAIN s |->
     IF s[i].board_id = boardId /\ s[i].priority = newPriority
        /\ s[i].position >= newPosition /\ s[i].status # "done"
     THEN [s[i] EXCEPT !.position = @ + 1] ELSE s[i]]

\* route.ts:40  UPDATE cards SET position = position + 1
\*              WHERE board_id = ? AND priority = ? AND position >= ?
IncrementNewColumn(s, boardId, newPriority, newPosition) ==
  [i \in DOMAIN s |->
     IF s[i].board_id = boardId /\ s[i].priority = newPriority
        /\ s[i].position >= newPosition
     THEN [s[i] EXCEPT !.position = @ + 1] ELSE s[i]]

\* DecrementBetween with position < ? in place of position <= ?.
DecrementBetweenExclusive(s, boardId, oldPriority, oldPosition, newPosition) ==
  [i \in DOMAIN s |->
     IF s[i].board_id = boardId /\ s[i].priority = oldPriority
        /\ s[i].position > oldPosition /\ s[i].position < newPosition
     THEN [s[i] EXCEPT !.position = @ - 1] ELSE s[i]]

\* route.ts:48  UPDATE cards SET position = position - 1 WHERE board_id = ?
\*              AND priority = ? AND position > ? AND position <= ?
DecrementBetween(s, boardId, oldPriority, oldPosition, newPosition) ==
  [i \in DOMAIN s |->
     IF s[i].board_id = boardId /\ s[i].priority = oldPriority
        /\ s[i].position > oldPosition /\ s[i].position <= newPosition
     THEN [s[i] EXCEPT !.position = @ - 1] ELSE s[i]]

\* IncrementBetween with position > ? in place of position >= ?.
IncrementBetweenExclusive(s, boardId, oldPriority, newPosition, oldPosition) ==
  [i \in DOMAIN s |->
     IF s[i].board_id = boardId /\ s[i].priority = oldPriority
        /\ s[i].position > newPosition /\ s[i].position < oldPosition
     THEN [s[i] EXCEPT !.position = @ + 1] ELSE s[i]]

\* route.ts:54  UPDATE cards SET position = position + 1 WHERE board_id = ?
\*              AND priority = ? AND position >= ? AND position < ?
IncrementBetween(s, boardId, oldPriority, newPosition, oldPosition) ==
  [i \in DOMAIN s |->
     IF s[i].board_id = boardId /\ s[i].priority = oldPriority
        /\ s[i].position >= newPosition /\ s[i].position < oldPosition
     THEN [s[i] EXCEPT !.position = @ + 1] ELSE s[i]]

\* UpdateMovedCard writing the position one-based (one past the target).
UpdateMovedCardOneBased(s, newPriority, newPosition, cardId) ==
  [i \in DOMAIN s |->
     IF i = cardId
     THEN [s[i] EXCEPT !.priority = newPriority, !.position = newPosition + 1]
     ELSE s[i]]

\* UpdateMovedCard writing the priority only.
UpdateMovedCardKeepingPosition(s, newPriority, newPosition, cardId) ==
  [i \in DOMAIN s |->
     IF i = cardId THEN [s[i] EXCEPT !.priority = newPriority] ELSE s[i]]

\* UpdateMovedCard writing the position only.
UpdateMovedCardPositionOnly(s, newPriority, newPosition, cardId) ==
  [i \in DOMAIN s |->
     IF i = cardId THEN [s[i] EXCEPT !.position = newPosition] ELSE s[i]]

\* route.ts:62  UPDATE cards SET priority = ?, position = ? WHERE id = ?
UpdateMovedCard(s, newPriority, newPosition, cardId) ==
  [i \in DOMAIN s |->
     IF i = cardId
     THEN [s[i] EXCEPT !.priority = newPriority, !.position = newPosition]
     ELSE s[i]]

\* MissingFields without the boardId test.
MissingFieldsNoBoard(r) ==
  r.cardId = 0 \/ r.newPriority = "" \/ r.newPosition = <<>>

\* A request body. A field the body lacks (undefined) is 0 for an id, "" for
\* the priority and <<>> for the position; a position n is <<n>>.
\* route.ts:8  !cardId || !boardId || !newPriority || newPosition === undefined
MissingFields(r) ==
  r.cardId = 0 \/ r.boardId = 0 \/ r.newPriority = "" \/ r.newPosition = <<>>

Answer(s, status, statements) ==
  [store |-> s, status |-> status, statements |-> statements]

\* The statements of a move of a found card (route.ts:28-65), in order.
MoveStatements(s, r, oldPriority, oldPosition) ==
  LET newPosition == r.newPosition[1] IN
  IF oldPriority # r.newPriority
  THEN Answer(
         UpdateMovedCard(
           IncrementNewColumn(
             DecrementOldColumn(s, r.boardId, oldPriority, oldPosition),
             r.boardId, r.newPriority, newPosition),
           r.newPriority, newPosition, r.cardId),
         200, <<"select", "update35", "update41", "update63">>)
  ELSE IF oldPosition < newPosition
  THEN Answer(
         UpdateMovedCard(
           DecrementBetween(s, r.boardId, oldPriority, oldPosition, newPosition),
           r.newPriority, newPosition, r.cardId),
         200, <<"select", "update49", "update63">>)
  ELSE IF oldPosition > newPosition
  THEN Answer(
         UpdateMovedCard(
           IncrementBetween(s, r.boardId, oldPriority, newPosition, oldPosition),
           r.newPriority, newPosition, r.cardId),
         200, <<"select", "update55", "update63">>)
  ELSE Answer(UpdateMovedCard(s, r.newPriority, newPosition, r.cardId),
              200, <<"select", "update63">>)

\* PUT without the rows.length test of route.ts:21: rows[0] of an empty
\* result throws, and the catch of route.ts:68 answers 500.
PUTNoRowsTest(s, r) ==
  IF MissingFields(r)
  THEN Answer(s, 400, <<>>)
  ELSE LET cardResult == SelectCard(s, r.cardId) IN
       IF Len(cardResult) = 0
       THEN Answer(s, 500, <<"select">>)
       ELSE MoveStatements(s, r, cardResult[1].priority, cardResult[1].position)

\* route.ts:4-67  the handler, every store call succeeding.
PUT(s, r) ==
  IF MissingFields(r)
  THEN Answer(s, 400, <<>>)
  ELSE LET cardResult == SelectCard(s, r.cardId) IN
       IF Len(cardResult) = 0
       THEN Answer(s, 404, <<"select">>)
       ELSE MoveStatements(s, r, cardResult[1].priority, cardResult[1].position)

\* ------------------------------------ the handler, statement by statement
\* route.ts:32-57  the first UPDATE of a move of a found card.
FirstStatement(r, oldPriority, oldPosition) ==
  IF oldPriority # r.newPriority THEN "update35"
  ELSE IF oldPosition < r.newPosition[1] THEN "update49"
  ELSE IF oldPosition > r.newPosition[1] THEN "update55"
  ELSE "update63"

\* Where the handler goes after a statement when, after the last UPDATE, it
\* awaits a promise that never settles.
AfterAwaitingForever(stmt) ==
  CASE stmt = "update35" -> "update41"
    [] stmt = "update63" -> "await66"
    [] OTHER -> "update63"

\* route.ts:34-67  where the handler goes after an UPDATE that returned.
After(stmt) ==
  CASE stmt = "update35" -> "update41"
    [] stmt = "update63" -> "return67"
    [] OTHER -> "update63"

\* The store after one UPDATE of the move r of a card found at
\* (oldPriority, oldPosition).
Execute(stmt, s, r, oldPriority, oldPosition) ==
  CASE stmt = "update35" ->
         DecrementOldColumn(s, r.boardId, oldPriority, oldPosition)
    [] stmt = "update41" ->
         IncrementNewColumn(s, r.boardId, r.newPriority, r.newPosition[1])
    [] stmt = "update49" ->
         DecrementBetween(s, r.boardId, oldPriority, oldPosition, r.newPosition[1])
    [] stmt = "update55" ->
         IncrementBetween(s, r.boardId, oldPriority, r.newPosition[1], oldPosition)
    [] stmt = "update63" ->
         UpdateMovedCard(s, r.newPriority, r.newPosition[1], r.cardId)

Updates == {"update35", "update41", "update49", "update55", "update63"}

\* The store after the first n UPDATEs of the move, starting at stmt.
RECURSIVE RunFrom(_, _, _, _, _, _)
RunFrom(stmt, s, r, oldPriority, oldPosition, n) ==
  IF n = 0 \/ stmt \notin Updates
  THEN s
  ELSE RunFrom(After(stmt), Execute(stmt, s, r, oldPriority, oldPosition),
               r, oldPriority, oldPosition, n - 1)

\* The stores a move of a found card leaves when one of its UPDATEs after the
\* first throws: at least one UPDATE is applied, the last one is not.
PartialStores(s, r) ==
  LET old == SelectCard(s, r.cardId)[1]
      first == FirstStatement(r, old.priority, old.position)
      updates == Len(PUT(s, r).statements) - 1
  IN {RunFrom(first, s, r, old.priority, old.position, n) : n \in 1..(updates - 1)}

\* ------------------------------------------------------------ requests
\* The bodies a caller may send: ids present, unknown or missing; a priority
\* of the three, another string, or missing; a position from -1 to one past
\* the largest group size, or missing.
RequestPriorities == Priorities \cup {"urgent", ""}
RequestPositions == {<<>>} \cup {<<n>> : n \in -1..(MaxCards + 1)}
Requests ==
  [cardId : 0..UnknownId, boardId : 0..NumBoards,
   newPriority : RequestPriorities, newPosition : RequestPositions]

NoRequest == [cardId |-> 0, boardId |-> 0, newPriority |-> "", newPosition |-> <<>>]
NoResponse == [status |-> 0, statements |-> <<>>]
\* No move is being handled statement by statement.
NoRun ==
  [pc |-> "idle", oldPriority |-> "", oldPosition |-> 0, before |-> <<>>,
   issued |-> <<>>]
\* Board.tsx:72  useState<CardType | null>(null): no card is being dragged.
\* `over` is the drop target of the last DragEndEvent: a column, a card, null,
\* or "none" before any drag has ended.
Over(kind, priority, id) == [kind |-> kind, priority |-> priority, id |-> id]
NoDrag == [activeCard |-> 0, over |-> Over("none", "", 0)]

\* ------------------------------------------------------------ stores
\* The status of a card is fixed by its id: the move endpoint never reads it.
StatusOfId(i) ==
  IF i % 3 = 1 THEN "not_started" ELSE IF i % 3 = 2 THEN "in_progress" ELSE "done"

\* The store of the cards ids in which card i sits in column group where[i]
\* and the cards of a group are ranked by key[i].
StoreOf(ids, where, key) ==
  [i \in ids |->
     Row(i, where[i][1], where[i][2], StatusOfId(i),
         Cardinality({j \in ids : where[j] = where[i] /\ key[j] < key[i]}))]

\* Every store of the cards ids whose column groups are dense and whose
\* boards are numbered in the order of their first card (the first card is on
\* board 1, the next on board 1 or 2, ...): the endpoint only compares board
\* ids, so the boards are interchangeable.
DenseStoresOf(ids) ==
  {StoreOf(ids, where, key) :
     where \in {w \in [ids -> Boards \X Priorities] :
                  \A i \in ids :
                    \/ w[i][1] = 1
                    \/ \E j \in ids : j < i /\ w[j][1] + 1 >= w[i][1]},
     key \in Permutations(ids)}

DenseStores == DenseStoresOf(CardIds)

\* ---------------------------------------------------------- Spec: server
Init ==
  /\ store \in DenseStores
  /\ req = NoRequest
  /\ resp = NoResponse
  /\ cards = <<>>
  /\ tasks = <<>>
  /\ run = NoRun
  /\ lastId = MaxCards
  /\ drag = NoDrag
  /\ handlers = <<>>

\* One move request handled from start to end, no other request interleaved.
\* Requests are served for as long as the position checker accepts the store.
MoveRequest ==
  /\ resp = NoResponse
  /\ Dense(store)
  /\ \E r \in Requests :
       LET a == PUT(store, r) IN
         /\ store' = a.store
         /\ req' = r
         /\ resp' = [status |-> a.status, statements |-> a.statements]
  /\ UNCHANGED <<cards, tasks, run, lastId, drag, handlers>>

\* route.ts:9,22,67  the response leaves; the endpoint is ready for the next.
Respond ==
  /\ resp # NoResponse
  /\ req' = NoRequest
  /\ resp' = NoResponse
  /\ UNCHANGED <<store, cards, tasks, run, lastId, drag, handlers>>

Next == MoveRequest \/ Respond

Spec == Init /\ [][Next]_vars

\* ------------------------------------------------- claims on the endpoint
\* The request of the step just taken was handled by the move endpoint.
Handled == resp' # NoResponse

AllFieldsPresent(r) ==
  r.cardId # 0 /\ r.boardId # 0 /\ r.newPriority # "" /\ r.newPosition # <<>>

IsUpdate(stmt) == stmt \in {"update35", "update41", "update49", "update55", "update63"}
NoWrite(statements) == \A n \in 1..Len(statements) : ~IsUpdate(statements[n])

\* A request the move contract admits: an existing card, its own board, one
\* of the three priorities, a position in [0, groupSize] of the target group,
\* groupSize counted before the move.
ValidMove(s, r) ==
  /\ AllFieldsPresent(r)
  /\ r.cardId \in DOMAIN s
  /\ r.boardId = s[r.cardId].board_id
  /\ r.newPriority \in Priorities
  /\ r.newPosition[1] \in 0..Cardinality(Group(s, r.boardId, r.newPriority))

\* C1: from a store whose groups are all dense, a valid move request handled
\* alone leaves every group dense again (positions exactly 0..n-1).
C1_ValidMoveKeepsDense ==
  [][(Handled /\ Dense(store) /\ ValidMove(store, req')) => Dense(store')]_vars

\* C4 (as stated): a request whose cardId matches no card is answered 404 and
\* the store is unchanged.
C4_UnknownCardIs404 ==
  [][(Handled /\ req'.cardId = UnknownId)
       => (resp'.status = 404 /\ store' = store)]_vars

\* C4 (amended): a request that carries all four fields and whose cardId
\* matches no card is answered 404 after the one SELECT, with no write; a
\* request whose cardId matches no card never changes the store.
C4_UnknownCardNoWrite ==
  [][(Handled /\ req'.cardId \notin DOMAIN store)
       => /\ store' = store
          /\ NoWrite(resp'.statements)
          /\ AllFieldsPresent(req')
               => (resp'.status = 404 /\ resp'.statements = <<"select">>)]_vars

C4_Witness ==
  /\ resp.status = 404
  /\ req.cardId = UnknownId
  /\ AllFieldsPresent(req)

\* C5: a request lacking cardId, boardId, the priority or the position is
\* answered 400 with no statement issued against the store; the store is
\* unchanged.
C5_MissingFieldIs400 ==
  [][(Handled /\ ~AllFieldsPresent(req'))
       => (resp'.status = 400 /\ resp'.statements = <<>> /\ store' = store)]_vars

C5_Witness ==
  /\ resp.status = 400
  /\ req.boardId = 0
  /\ req.cardId \in DOMAIN store
  /\ req.newPriority \in Priorities
  /\ req.newPosition # <<>>

\* C6: a request whose priority is not one of high, medium, low is answered
\* with a client error and nothing is written, so every card's priority
\* stays one of the three.
C6_BadPriorityRejected ==
  [][(Handled /\ req'.newPriority \notin Priorities)
       => /\ resp'.status \in 400..499
          /\ store' = store
          /\ \A i \in DOMAIN store' : store'[i].priority \in Priorities]_vars

\* C7: a request for an existing card of the request's board whose position
\* lies outside [0, groupSize] of the target group is answered with a client
\* error and the store is unchanged.
C7_BadPositionRejected ==
  [][(/\ Handled
      /\ AllFieldsPresent(req')
      /\ req'.cardId \in DOMAIN store
      /\ req'.boardId = store[req'.cardId].board_id
      /\ req'.newPriority \in Priorities
      /\ req'.newPosition[1] \notin
           0..Cardinality(Group(store, req'.boardId, req'.newPriority)))
       => (resp'.status \in 400..499 /\ store' = store)]_vars

\* The request moves a card to the priority and position the card has.
NoOpMove(s, r) ==
  /\ r.cardId \in DOMAIN s
  /\ r.newPriority = s[r.cardId].priority
  /\ r.newPosition = <<s[r.cardId].position>>

\* C8: a move of a card to the priority and position it has leaves the store
\* as it was, and is the same no-op move in the store it leaves.
C8_NoOpMoveKeepsStore ==
  [][(Handled /\ NoOpMove(store, req'))
       => (store' = store /\ NoOpMove(store', req'))]_vars

C8_Witness ==
  /\ resp.status = 200
  /\ NoOpMove(store, req)
  /\ resp.statements = <<"select", "update63">>
  /\ Cardinality(Group(store, store[req.cardId].board_id, req.newPriority)) >= 2

\* The fields a move leaves alone.
SamePayload(a, b) ==
  /\ a.id = b.id /\ a.board_id = b.board_id /\ a.title = b.title
  /\ a.description = b.description /\ a.assignee = b.assignee
  /\ a.status = b.status

\* C9: a successful move (to one of the three priorities, at a position in
\* 0..MaxCards-1) changes only the priority and position of the moved
\* card and the position of cards in the moved card's source and target
\* groups; every other field, and every card of any other group (the third
\* column, other boards), is as before.
C9_MoveFrame ==
  [][(/\ Handled
      /\ resp'.status = 200
      /\ req'.newPriority \in Priorities
      /\ req'.newPosition[1] \in 0..(MaxCards - 1))
       => \A i \in DOMAIN store :
            /\ SamePayload(store[i], store'[i])
            /\ i # req'.cardId => store'[i].priority = store[i].priority
            /\ (/\ i # req'.cardId
                /\ ~(/\ store[i].board_id = store[req'.cardId].board_id
                     /\ store[i].priority \in
                          {store[req'.cardId].priority, req'.newPriority}))
                 => store'[i] = store[i]]_vars


\* ------------------------------------------------- the card list endpoint
\* lib/db.ts:152-156  CASE priority WHEN ... END; no WHEN matches: NULL, which
\* ORDER BY puts first.
PriorityRank(p) ==
  CASE p = "high" -> 1 [] p = "medium" -> 2 [] p = "low" -> 3 [] OTHER -> 0

\* lib/db.ts:157-161  CASE COALESCE(status, 'not_started') WHEN ... END
StatusRank(st) ==
  CASE st = "in_progress" -> 1 [] st = "not_started" -> 2 [] st = "done" -> 3
    [] OTHER -> 0

\* Row a sorts strictly before row b under the ORDER BY of lib/db.ts:151-162.
SortsBefore(a, b) ==
  \/ PriorityRank(a.priority) < PriorityRank(b.priority)
  \/ /\ PriorityRank(a.priority) = PriorityRank(b.priority)
     /\ \/ StatusRank(a.status) < StatusRank(b.status)
        \/ /\ StatusRank(a.status) = StatusRank(b.status)
           /\ a.position < b.position

\* lib/db.ts:151-162  the orders ORDER BY may give the rows ids of s: a row
\* that no other row sorts before comes first, then the rest likewise.
RECURSIVE SortedOrders(_, _)
SortedOrders(s, ids) ==
  IF ids = {}
  THEN {<<>>}
  ELSE UNION {{<<s[i]>> \o rest : rest \in SortedOrders(s, ids \ {i})} :
                i \in {j \in ids : \A m \in ids : ~SortsBefore(s[m], s[j])}}

\* lib/db.ts:148-166  the arrays SELECT * FROM cards WHERE board_id = ? ORDER BY
\* ... may return: rows with equal sort keys come in any order.
getCardsByBoard(s, b) == SortedOrders(s, {i \in DOMAIN s : s[i].board_id = b})

\* --------------------------------------------------------- the board page
\* part_002:34  const boardId = Number(params.id): the page shows board 1.
boardId == 1

\* The callback of updatedCards.map with > in place of >= for the new column.
OptimisticCardStrict(c, cardId, oldPriority, oldPosition, newPriority, newPosition) ==
  LET sameColumn == oldPriority = newPriority IN
  IF c.id = cardId
  THEN [c EXCEPT !.priority = newPriority, !.position = newPosition]
  ELSE IF ~sameColumn /\ c.priority = oldPriority /\ c.position > oldPosition
  THEN [c EXCEPT !.position = @ - 1]
  ELSE IF ~sameColumn /\ c.priority = newPriority /\ c.position > newPosition
  THEN [c EXCEPT !.position = @ + 1]
  ELSE IF /\ sameColumn /\ c.priority = oldPriority /\ oldPosition < newPosition
          /\ c.position > oldPosition /\ c.position <= newPosition
  THEN [c EXCEPT !.position = @ - 1]
  ELSE IF /\ sameColumn /\ c.priority = oldPriority /\ oldPosition > newPosition
          /\ c.position >= newPosition /\ c.position < oldPosition
  THEN [c EXCEPT !.position = @ + 1]
  ELSE c

\* part_002:270-296  the callback of updatedCards.map
OptimisticCard(c, cardId, oldPriority, oldPosition, newPriority, newPosition) ==
  LET sameColumn == oldPriority = newPriority IN
  IF c.id = cardId
  THEN [c EXCEPT !.priority = newPriority, !.position = newPosition]
  ELSE IF ~sameColumn /\ c.priority = oldPriority /\ c.position > oldPosition
  THEN [c EXCEPT !.position = @ - 1]
  ELSE IF ~sameColumn /\ c.priority = newPriority /\ c.position >= newPosition
  THEN [c EXCEPT !.position = @ + 1]
  ELSE IF /\ sameColumn /\ c.priority = oldPriority /\ oldPosition < newPosition
          /\ c.position > oldPosition /\ c.position <= newPosition
  THEN [c EXCEPT !.position = @ - 1]
  ELSE IF /\ sameColumn /\ c.priority = oldPriority /\ oldPosition > newPosition
          /\ c.position >= newPosition /\ c.position < oldPosition
  THEN [c EXCEPT !.position = @ + 1]
  ELSE c

\* part_002:257  cards.find(c => c.id === cardId): the index of the first
\* match, 0 when there is none.
FindCard(cs, cardId) ==
  IF \E n \in 1..Len(cs) : cs[n].id = cardId
  THEN CHOOSE n \in 1..Len(cs) :
         cs[n].id = cardId /\ \A m \in 1..(n - 1) : cs[m].id # cardId
  ELSE 0

\* part_002:260-296  updatedCards, for a card found at index n
UpdatedCards(cs, n, cardId, newPriority, newPosition) ==
  [k \in 1..Len(cs) |->
     OptimisticCard(cs[k], cardId, cs[n].priority, cs[n].position,
                    newPriority, newPosition)]

\* The rows of an array, and the rows the store holds for a board.
RowsOf(cs) == {cs[n] : n \in 1..Len(cs)}
BoardRows(s, b) == {s[i] : i \in {j \in DOMAIN s : s[j].board_id = b}}

\* The state of one handleMoveCard invocation:
\*   pc      where the async function stands
\*   req     the body of its move request
\*   move    its move fetch: "pending", "ok" (a response came), "rejected"
\*   status  the HTTP status of the response, 0 while there is none
\*   reload  its loadCards fetch, likewise
\*   data    the array the reload response carries
\*   synced  at the drop, every other invocation had ended and the local
\*           array held exactly the store's rows of the board
Task(r, synced) ==
  [pc |-> "moveSent", req |-> r, move |-> "pending", status |-> 0,
   reload |-> "pending", data |-> <<>>, synced |-> synced]

\* An invocation that has returned: nothing of it is left.
Ended ==
  [pc |-> "done", req |-> NoRequest, move |-> "ok", status |-> 0,
   reload |-> "ok", data |-> <<>>, synced |-> FALSE]

\* The move fetch not awaited: loadCards() is called at once.
AfterSendNoAwait == "reloadSent"

\* The pc of an invocation after its move request is sent (part_002:301, await).
AfterSend == "moveSent"

\* part_002:250-310  handleMoveCard up to the await of the move fetch.
handleMoveCard(cardId, newPriority, newPosition) ==
  LET n == FindCard(cards, cardId) IN
  IF n = 0
  THEN UNCHANGED <<store, req, resp, cards, tasks, run, lastId, handlers>>
  ELSE /\ cards' = UpdatedCards(cards, n, cardId, newPriority, newPosition)
       /\ tasks' = Append(tasks,
            [Task([cardId |-> cardId, boardId |-> boardId,
                   newPriority |-> newPriority, newPosition |-> <<newPosition>>],
                  /\ \A k \in DOMAIN tasks : tasks[k].pc = "done"
                  /\ RowsOf(cards) = BoardRows(store, boardId))
               EXCEPT !.pc = AfterSend])
       /\ UNCHANGED <<store, req, resp, run, lastId, handlers>>

\* Board.tsx:149  onMoveCard(activeId, targetPriority, newPosition): a drop of
\* any card on any column at any index of the displayed list.
Drop ==
  \E cardId \in DOMAIN store, newPriority \in Priorities,
     newPosition \in 0..Len(cards) :
    /\ handleMoveCard(cardId, newPriority, newPosition)
    /\ UNCHANGED drag

\* The move endpoint handles the request of invocation k (route.ts:4-67).
ServeMove(k) ==
  /\ k \in DOMAIN tasks
  /\ tasks[k].pc = "moveSent"
  /\ LET a == PUT(store, tasks[k].req) IN
       /\ store' = a.store
       /\ tasks' = [tasks EXCEPT ![k].pc = "moveDone", ![k].move = "ok",
                                 ![k].status = a.status]
  /\ UNCHANGED <<req, resp, cards, run, lastId, drag, handlers>>

\* The store is down: the SELECT of route.ts:16 throws and the catch of
\* route.ts:68-74 answers 500.
ServeMoveStoreDown(k) ==
  /\ k \in DOMAIN tasks
  /\ tasks[k].pc = "moveSent"
  /\ tasks' = [tasks EXCEPT ![k].pc = "moveDone", ![k].move = "ok",
                            ![k].status = 500]
  /\ UNCHANGED <<store, req, resp, cards, run, lastId, drag, handlers>>

\* route.ts:34-74  an UPDATE after the first throws: the writes before it
\* stay, and the catch answers 500.
ServeMoveThrowsMidway(k) ==
  /\ k \in DOMAIN tasks
  /\ tasks[k].pc = "moveSent"
  /\ PUT(store, tasks[k].req).status = 200
  /\ store' \in PartialStores(store, tasks[k].req)
  /\ tasks' = [tasks EXCEPT ![k].pc = "moveDone", ![k].move = "ok",
                            ![k].status = 500]
  /\ UNCHANGED <<req, resp, cards, run, lastId, drag, handlers>>

\* The move fetch rejects: the request, or the response to it, is lost.
MoveFetchRejects(k) ==
  /\ k \in DOMAIN tasks
  /\ tasks[k].pc \in {"moveSent", "moveDone"}
  /\ tasks[k].move # "rejected"
  /\ tasks' = [tasks EXCEPT ![k].pc = "moveDone", ![k].move = "rejected",
                            ![k].status = 0]
  /\ UNCHANGED <<store, req, resp, cards, run, lastId, drag, handlers>>

\* The move sent again when the endpoint answered with an error.
AfterMoveFetchRetrying(task) ==
  IF task.move = "ok" /\ task.status >= 500 THEN "moveSent" ELSE "reloadSent"

\* part_002:301-316  what follows the await of the move fetch: response.ok is
\* never read, loadCards() is called whatever the outcome.
AfterMoveFetch(task) == "reloadSent"

\* part_002:301-316  the await of the move fetch returns (any status) or
\* throws: loadCards() is called, at line 313 or in the catch at line 316, and
\* sends its GET (part_002:87).
MoveFetchSettled(k) ==
  /\ k \in DOMAIN tasks
  /\ tasks[k].pc = "moveDone"
  /\ tasks' = [tasks EXCEPT ![k].pc = AfterMoveFetch(tasks[k])]
  /\ UNCHANGED <<store, req, resp, cards, run, lastId, drag, handlers>>

\* part_005:4-17  GET /api/cards?board_id= answers with getCardsByBoard.
ServeList(k) ==
  /\ k \in DOMAIN tasks
  /\ tasks[k].pc = "reloadSent"
  /\ \E data \in getCardsByBoard(store, boardId) :
       tasks' = [tasks EXCEPT ![k].pc = "reloadDone", ![k].reload = "ok",
                              ![k].data = data]
  /\ UNCHANGED <<store, req, resp, cards, run, lastId, drag, handlers>>

\* The reload fetch rejects: the GET, or the response to it, is lost.
ReloadFetchRejects(k) ==
  /\ k \in DOMAIN tasks
  /\ tasks[k].pc \in {"reloadSent", "reloadDone"}
  /\ tasks[k].reload # "rejected"
  /\ tasks' = [tasks EXCEPT ![k].pc = "reloadDone", ![k].reload = "rejected",
                            ![k].data = <<>>]
  /\ UNCHANGED <<store, req, resp, cards, run, lastId, drag, handlers>>

\* The array a settled reload leaves in `cards` (part_002:88-91).
ReloadedCards(cs, task) == IF task.reload = "ok" THEN task.data ELSE cs

\* part_002:87-94  loadCards after its fetch: setCards(data), or the catch.
loadCardsSettled(k) ==
  /\ k \in DOMAIN tasks
  /\ tasks[k].pc = "reloadDone"
  /\ cards' = ReloadedCards(cards, tasks[k])
  /\ tasks' = [tasks EXCEPT ![k] = Ended]
  /\ UNCHANGED <<store, req, resp, run, lastId, drag, handlers>>

\* ---------------------------------------------------- SpecClient: the page
\* The stores of a session: dense, with every card but the last on the
\* page's board.
ClientStores ==
  {s \in DenseStoresOf(1..PageCards) :
     \A i \in 1..PageCards : i < PageCards => s[i].board_id = boardId}

\* The page after its first loadCards (part_002:51-56).
InitClient ==
  /\ store \in ClientStores
  /\ req = NoRequest
  /\ resp = NoResponse
  /\ cards \in getCardsByBoard(store, boardId)
  /\ tasks = <<>>
  /\ run = NoRun
  /\ lastId = PageCards
  /\ drag = NoDrag
  /\ handlers = <<>>

\* A drop made once every earlier invocation has returned.
DropWhenSettled ==
  /\ Len(tasks) < MaxDrops
  /\ \A k \in DOMAIN tasks : tasks[k].pc = "done"
  /\ Drop

\* A session of drops made one after the other; the network and the store
\* may fail any fetch.
NextClient ==
  \/ DropWhenSettled
  \/ \E k \in 1..MaxDrops :
       \/ ServeMove(k)
       \/ ServeMoveStoreDown(k)
       \/ ServeMoveThrowsMidway(k)
       \/ MoveFetchRejects(k)
       \/ MoveFetchSettled(k)
       \/ ServeList(k)
       \/ ReloadFetchRejects(k)
       \/ loadCardsSettled(k)

\* The continuation of an await runs once its promise has settled.
SpecClient ==
  /\ InitClient
  /\ [][NextClient]_vars
  /\ \A k \in 1..MaxDrops :
       WF_vars(MoveFetchSettled(k)) /\ WF_vars(loadCardsSettled(k))

\* ------------------------------------------- SpecRace: overlapping drops
\* A session in which a drop may be made while earlier invocations are in
\* flight; requests and responses travel in any order and none is lost.
DropAtAnyTime ==
  /\ Len(tasks) < MaxOverlap
  /\ Drop

NextRace ==
  \/ DropAtAnyTime
  \/ \E k \in 1..MaxOverlap :
       \/ ServeMove(k)
       \/ MoveFetchSettled(k)
       \/ ServeList(k)
       \/ loadCardsSettled(k)

SpecRace == InitClient /\ [][NextRace]_vars

\* --------------------------------------------------- claims on the page
\* C2: when a drop is made with the local array holding exactly the store's
\* rows of the board, the optimistic array holds, once the endpoint has
\* applied the same move, exactly the rows the store then holds for the
\* board (the same priority and position for every card).
C2_OptimisticEqualsServer ==
  \A k \in DOMAIN tasks :
    (/\ k = Len(tasks)
     /\ tasks[k].synced
     /\ tasks[k].pc = "moveDone"
     /\ tasks[k].move = "ok"
     /\ tasks[k].status = 200)
      => RowsOf(cards) = BoardRows(store, boardId)

C2_Witness ==
  \E k \in DOMAIN tasks :
    /\ k = Len(tasks)
    /\ tasks[k].synced
    /\ tasks[k].pc = "moveDone"
    /\ tasks[k].move = "ok"
    /\ tasks[k].status = 200
    /\ \E m \in 1..Len(cards) :
         /\ cards[m].id # tasks[k].req.cardId
         /\ cards[m].priority = tasks[k].req.newPriority
         /\ cards[m].position > tasks[k].req.newPosition[1]

\* The pc of invocation k, "none" before its drop.
PcOf(k) == IF k \in DOMAIN tasks THEN tasks[k].pc ELSE "none"

\* C3: the reload of an invocation is in flight only once its move fetch has
\* completed; every completed move fetch (a response of any status, or a
\* rejection) is followed by the sending of the reload; and a reload whose
\* response arrives replaces the local array by the array it carries.
C3_ReloadAfterEveryMove ==
  /\ [](\A k \in DOMAIN tasks :
          tasks[k].pc \in {"reloadSent", "reloadDone"} => tasks[k].move # "pending")
  /\ \A k \in 1..MaxDrops : (PcOf(k) = "moveDone") ~> (PcOf(k) = "reloadSent")
  /\ [][\A k \in DOMAIN tasks :
          (tasks[k].pc = "reloadDone" /\ tasks[k].reload = "ok"
           /\ tasks'[k].pc = "done") => cards' = tasks[k].data]_vars

C3_Witness ==
  \E k \in DOMAIN tasks :
    /\ tasks[k].pc = "reloadDone"
    /\ tasks[k].reload = "ok"
    /\ tasks[k].move = "rejected"
    /\ RowsOf(cards) # RowsOf(tasks[k].data)

\* C10: once every invocation has returned, with no fetch lost and no other
\* writer, the local array is the store's card list of the board.
C10_SettledPageShowsStore ==
  (Len(tasks) >= 1 /\ \A k \in DOMAIN tasks : tasks[k].pc = "done")
    => cards \in getCardsByBoard(store, boardId)

\* ------------------------- SpecSteps: the handler, one store call at a time
\* The stores and requests of the statement-level runs.
StepStores == DenseStoresOf(1..PageCards)
StepRequests ==
  {r \in Requests :
     /\ r.cardId <= PageCards + 1
     /\ r.newPosition \in {<<>>} \cup {<<n>> : n \in 0..PageCards}}

InitSteps ==
  /\ store \in StepStores
  /\ req = NoRequest
  /\ resp = NoResponse
  /\ cards = <<>>
  /\ tasks = <<>>
  /\ run = NoRun
  /\ lastId = PageCards
  /\ drag = NoDrag
  /\ handlers = <<>>

\* The catch acknowledging success: the error is logged and swallowed.
StatusForSwallowed(outcome) ==
  CASE outcome = "success" -> 200
    [] outcome = "missing_fields" -> 400
    [] outcome = "card_not_found" -> 404
    [] outcome = "thrown" -> 200

\* route.ts:11,24,67,72  the HTTP status of each way the handler ends.
StatusFor(outcome) ==
  CASE outcome = "success" -> 200
    [] outcome = "missing_fields" -> 400
    [] outcome = "card_not_found" -> 404
    [] outcome = "thrown" -> 500

\* The handler returns a response: nothing of it runs any more.
Return(status) ==
  /\ resp' = [status |-> status, statements |-> run.issued]
  /\ run' = [run EXCEPT !.pc = "returned"]

\* route.ts:4-6  a request arrives and its body parses.
Receive ==
  /\ run.pc = "idle"
  /\ Dense(store)
  /\ \E r \in StepRequests : req' = r
  /\ run' = [NoRun EXCEPT !.pc = "test8", !.before = store]
  /\ UNCHANGED <<store, resp, cards, tasks, lastId, drag, handlers>>

\* route.ts:6,68-74  request.json() throws on a body that is not JSON.
BodyThrows ==
  /\ run.pc = "idle"
  /\ Dense(store)
  /\ req' = NoRequest
  /\ resp' = [status |-> StatusFor("thrown"), statements |-> <<>>]
  /\ run' = [NoRun EXCEPT !.pc = "returned", !.before = store]
  /\ UNCHANGED <<store, cards, tasks, lastId, drag, handlers>>

\* route.ts:8-13
TestFields ==
  /\ run.pc = "test8"
  /\ IF MissingFields(req)
     THEN Return(StatusFor("missing_fields"))
     ELSE run' = [run EXCEPT !.pc = "select16"] /\ UNCHANGED resp
  /\ UNCHANGED <<store, req, cards, tasks, lastId, drag, handlers>>

\* route.ts:16-29  the SELECT returns.
Select ==
  /\ run.pc = "select16"
  /\ LET cardResult == SelectCard(store, req.cardId) IN
       IF Len(cardResult) = 0
       THEN /\ resp' = [status |-> StatusFor("card_not_found"),
                         statements |-> <<"select">>]
            /\ run' = [run EXCEPT !.pc = "returned", !.issued = <<"select">>]
       ELSE /\ run' = [run EXCEPT
                         !.pc = FirstStatement(req, cardResult[1].priority,
                                               cardResult[1].position),
                         !.oldPriority = cardResult[1].priority,
                         !.oldPosition = cardResult[1].position,
                         !.issued = <<"select">>]
            /\ UNCHANGED resp
  /\ UNCHANGED <<store, req, cards, tasks, lastId, drag, handlers>>

\* route.ts:34-65  the UPDATE at run.pc returns.
Update ==
  /\ run.pc \in Updates
  /\ store' = Execute(run.pc, store, req, run.oldPriority, run.oldPosition)
  /\ run' = [run EXCEPT !.pc = After(run.pc), !.issued = Append(@, run.pc)]
  /\ UNCHANGED <<req, resp, cards, tasks, lastId, drag, handlers>>

\* route.ts:67
ReturnSuccess ==
  /\ run.pc = "return67"
  /\ Return(StatusFor("success"))
  /\ UNCHANGED <<store, req, cards, tasks, lastId, drag, handlers>>

\* route.ts:68-74  the store call at run.pc throws: the catch answers 500.
StoreCallThrows ==
  /\ run.pc \in Updates \cup {"select16"}
  /\ Return(StatusFor("thrown"))
  /\ UNCHANGED <<store, req, cards, tasks, lastId, drag, handlers>>

\* The response leaves; the endpoint is ready for the next request.
Returned ==
  /\ run.pc = "returned"
  /\ req' = NoRequest
  /\ resp' = NoResponse
  /\ run' = NoRun
  /\ UNCHANGED <<store, cards, tasks, lastId, drag, handlers>>

\* A store call, once issued, returns or throws.
StoreCallSettles == Select \/ Update \/ StoreCallThrows

NextSteps ==
  \/ Receive
  \/ BodyThrows
  \/ TestFields
  \/ Select
  \/ Update
  \/ ReturnSuccess
  \/ StoreCallThrows
  \/ Returned

\* The handler's synchronous steps run; every store call settles.
SpecSteps ==
  /\ InitSteps
  /\ [][NextSteps]_vars
  /\ WF_vars(TestFields) /\ WF_vars(StoreCallSettles) /\ WF_vars(ReturnSuccess)

\* A run in which every store call returned leaves the store and the answer
\* of PUT.
StepsAgreeWithPUT ==
  (run.pc = "returned" /\ resp.status # 500)
    => LET a == PUT(run.before, req) IN
         /\ store = a.store
         /\ resp = [status |-> a.status, statements |-> a.statements]

\* ------------------------------ SpecReader: a reader during one move
\* part_002:51-56,84-87  the loadCards of a page that is opening: its GET is
\* in flight.
ReloadTask ==
  [Task(NoRequest, FALSE) EXCEPT !.pc = "reloadSent", !.move = "ok"]

InitReader ==
  /\ store \in StepStores
  /\ req = NoRequest
  /\ resp = NoResponse
  /\ cards = <<>>
  /\ tasks = <<ReloadTask>>
  /\ run = NoRun
  /\ lastId = PageCards
  /\ drag = NoDrag
  /\ handlers = <<>>

\* One move whose store calls all return, and one GET of the card list
\* served before, between or after its statements.
NextReader ==
  \/ Receive
  \/ TestFields
  \/ Select
  \/ Update
  \/ ReturnSuccess
  \/ ServeList(1)

SpecReader == InitReader /\ [][NextReader]_vars

\* C11: the card list a reader is served while a move is handled is the list
\* of the store before the move or of the store after the whole move, never
\* of a store holding only some of the move's writes.
C11_ReaderSeesBeforeOrAfter ==
  \A k \in DOMAIN tasks :
    (tasks[k].pc = "reloadDone" /\ run.pc # "idle")
      => tasks[k].data \in
           getCardsByBoard(run.before, boardId)
             \cup getCardsByBoard(PUT(run.before, req).store, boardId)

\* --------------------------------------------- the cards API (part_005)
\* lib/db.ts:176-180  SELECT MAX(position) ...: NULL for a group without rows;
\* (max_pos || -1) + 1: a max_pos of NULL or 0 is falsy and gives -1.
NextPosition(s, board_id, priority) ==
  LET g == Group(s, board_id, priority) IN
  IF g = {}
  THEN 0
  ELSE LET max_pos == CHOOSE x \in {s[i].position : i \in g} :
                        \A i \in g : s[i].position <= x
       IN (IF max_pos = 0 THEN -1 ELSE max_pos) + 1

\* lib/db.ts:168-187  createCard: the INSERT takes the id after the largest
\* the table ever handed out (AUTOINCREMENT).
createCard(s, last, board_id, priority, status) ==
  LET id == last + 1 IN
  [i \in DOMAIN s \cup {id} |->
     IF i = id
     THEN Row(id, board_id, priority, status, NextPosition(s, board_id, priority))
     ELSE s[i]]

\* lib/db.ts:189-210  updateCard: title, description and assignee are written
\* as the card has them.
updateCard(s, id, priority, status) ==
  [i \in DOMAIN s |->
     IF i = id THEN [s[i] EXCEPT !.priority = priority, !.status = status]
     ELSE s[i]]

\* lib/db.ts:212-217  deleteCard
deleteCard(s, id) == [i \in DOMAIN s \ {id} |-> s[i]]

\* lib/db.ts:219-224  updateCardBoard
updateCardBoard(s, id, board_id) ==
  [i \in DOMAIN s |-> IF i = id THEN [s[i] EXCEPT !.board_id = board_id] ELSE s[i]]

\* part_005:44,84  status || 'not_started'
StatusOrDefault(status) == IF status = "" THEN "not_started" ELSE status

\* part_005:27-55  POST /api/cards; a field the body lacks is 0 or "".
POST(s, last, body) ==
  IF body.board_id = 0 \/ body.title = 0 \/ body.priority = ""
  THEN [store |-> s, lastId |-> last, status |-> 400]
  ELSE [store |-> createCard(s, last, body.board_id, body.priority,
                             StatusOrDefault(body.status)),
        lastId |-> last + 1, status |-> 200]

\* part_005:57-100  PUT /api/cards?id=; a body without board_id has board_id
\* <<>>, one with board_id b has <<b>>.
PUTCard(s, id, body) ==
  IF id = 0 \/ body.title = 0 \/ body.priority = ""
  THEN [store |-> s, status |-> 400]
  ELSE LET updated == updateCard(s, id, body.priority, StatusOrDefault(body.status))
       IN [store |-> IF body.board_id # <<>>
                     THEN updateCardBoard(updated, id, body.board_id[1])
                     ELSE updated,
           status |-> 200]

\* part_005:102-123  DELETE /api/cards?id=
DELETE(s, id) ==
  IF id = 0
  THEN [store |-> s, status |-> 400]
  ELSE [store |-> deleteCard(s, id), status |-> 200]

\* --------------------------------- SpecCards: create, edit and delete
\* The stores of up to PageCards cards whose groups are dense.
InitCards ==
  /\ \E n \in 0..PageCards : store \in DenseStoresOf(1..n) /\ lastId = n
  /\ req = NoRequest
  /\ resp = NoResponse
  /\ cards = <<>>
  /\ tasks = <<>>
  /\ run = NoRun
  /\ drag = NoDrag
  /\ handlers = <<>>

\* Requests are served while the table has handed out fewer than MaxCards
\* ids and for as long as the position checker accepts the store.
CreateCard ==
  /\ lastId < MaxCards
  /\ Dense(store)
  /\ \E body \in [board_id : 0..NumBoards, title : {0, lastId + 1},
                  priority : RequestPriorities, status : Statuses \cup {""}] :
       LET a == POST(store, lastId, body) IN
         /\ store' = a.store
         /\ lastId' = a.lastId
  /\ UNCHANGED <<req, resp, cards, tasks, run, drag, handlers>>

EditCard ==
  /\ Dense(store)
  /\ \E id \in 0..lastId :
       \E body \in [title : {0, id}, priority : RequestPriorities,
                    status : Statuses \cup {""},
                    board_id : {<<>>} \cup {<<b>> : b \in Boards}] :
         store' = PUTCard(store, id, body).store
  /\ UNCHANGED <<req, resp, cards, tasks, run, lastId, drag, handlers>>

DeleteCard ==
  /\ Dense(store)
  /\ \E id \in 0..lastId : store' = DELETE(store, id).store
  /\ UNCHANGED <<req, resp, cards, tasks, run, lastId, drag, handlers>>

NextCards == CreateCard \/ EditCard \/ DeleteCard

SpecCards == InitCards /\ [][NextCards]_vars

\* ------------------------------------------------ claims on the cards API
\* The step just taken created a card (the table handed out an id).
Created == lastId' = lastId + 1 /\ lastId' \in DOMAIN store'

\* C12: a card created in a (board, priority) group gets the number of cards
\* the group held before as its position, so creations into a group whose
\* positions are 0..n-1 leave them 0..n.
C12_CreateAppends ==
  [][Created =>
       LET c == store'[lastId'] IN
         /\ c.position = Cardinality(Group(store, c.board_id, c.priority))
         /\ Dense(store) => Dense(store')]_vars

\* The step just taken deleted card d.
Deleted(d) == d \in DOMAIN store /\ DOMAIN store' = DOMAIN store \ {d}

\* C13: when a card is deleted, every sibling of its group with a higher
\* position shifts down by one, so a group whose positions were 0..n-1 has
\* positions 0..n-2 after the deletion.
C13_DeleteShiftsSiblings ==
  [][\A d \in DOMAIN store :
       Deleted(d) =>
         /\ \A i \in Group(store, store[d].board_id, store[d].priority) \ {d} :
              store[i].position > store[d].position
                => store'[i].position = store[i].position - 1
         /\ Dense(store) => Dense(store')]_vars

\* The step just taken is a card edit that changed card i's priority or board.
Regrouped(i) ==
  /\ DOMAIN store' = DOMAIN store
  /\ i \in DOMAIN store
  /\ \/ store'[i].priority # store[i].priority
     \/ store'[i].board_id # store[i].board_id

\* C14: when the card edit changes a card's priority (to one of the three) or
\* its board, the group it leaves and the group it enters have positions
\* exactly 0..n-1 after the edit.
C14_EditKeepsDense ==
  [][\A i \in DOMAIN store :
       (Regrouped(i) /\ Dense(store) /\ store'[i].priority \in Priorities)
         => Dense(store')]_vars

\* ------------------------------------------------- the Board's drag and drop
\* Board.tsx:83  cards.filter(c => c.status !== 'done')
ActiveCards(cs) ==
  LET NotDone(c) == c.status # "done" IN SelectSeq(cs, NotDone)

\* TargetCards taken from cards in place of activeCards: the completed cards
\* are counted too.
TargetCardsWithDone(cs, targetPriority) ==
  LET InTarget(c) == c.priority = targetPriority IN SelectSeq(cs, InTarget)

\* Board.tsx:115,122  activeCards.filter(c => c.priority === targetPriority)
TargetCards(cs, targetPriority) ==
  LET InTarget(c) == c.priority = targetPriority IN SelectSeq(ActiveCards(cs), InTarget)

\* The drop targets of a board showing cs: null, a column, a displayed card.
OverTargets(cs) ==
  {Over("null", "", 0)}
    \cup {Over("column", p, 0) : p \in Priorities}
    \cup {Over("card", "", ActiveCards(cs)[n].id) : n \in 1..Len(ActiveCards(cs))}

NoCall == [call |-> FALSE, cardId |-> 0, newPriority |-> "", newPosition |-> 0]

\* Board.tsx:108-150  handleDragEnd from the target priority on, for an active
\* card found at index a of activeCards.
DropOn(cs, a, targetPriority, newPosition) ==
  LET activeCard == ActiveCards(cs)[a] IN
  IF activeCard.priority # targetPriority \/ newPosition # activeCard.position
  THEN [call |-> TRUE, cardId |-> activeCard.id, newPriority |-> targetPriority,
        newPosition |-> newPosition]
  ELSE NoCall

\* handleDragEnd without the test of Board.tsx:99: a drag that ends over
\* nothing is taken as a drop on the column of the dragged card.
handleDragEndNoOverTest(cs, activeId, over) ==
  LET a == FindCard(ActiveCards(cs), activeId) IN
  IF a = 0 THEN NoCall
  ELSE IF over.kind = "null"
  THEN DropOn(cs, a, ActiveCards(cs)[a].priority,
              Len(TargetCards(cs, ActiveCards(cs)[a].priority)))
  ELSE IF over.kind = "column"
  THEN DropOn(cs, a, over.priority, Len(TargetCards(cs, over.priority)))
  ELSE LET o == FindCard(ActiveCards(cs), over.id) IN
       IF o = 0 THEN NoCall
       ELSE LET targetPriority == ActiveCards(cs)[o].priority IN
            DropOn(cs, a, targetPriority,
                   FindCard(TargetCards(cs, targetPriority), over.id) - 1)

\* Board.tsx:94-151  handleDragEnd: the onMoveCard call it makes, if any.
handleDragEnd(cs, activeId, over) ==
  IF over.kind = "null" THEN NoCall
  ELSE LET a == FindCard(ActiveCards(cs), activeId) IN
  IF a = 0 THEN NoCall
  ELSE IF over.kind = "column"
  THEN DropOn(cs, a, over.priority, Len(TargetCards(cs, over.priority)))
  ELSE LET o == FindCard(ActiveCards(cs), over.id) IN
       IF o = 0 THEN NoCall
       ELSE LET targetPriority == ActiveCards(cs)[o].priority IN
            DropOn(cs, a, targetPriority,
                   FindCard(TargetCards(cs, targetPriority), over.id) - 1)

\* Board.tsx:89-92  handleDragStart: a displayed card is picked up, once every
\* earlier move has returned.
DragStart ==
  /\ drag.activeCard = 0
  /\ Len(tasks) < MaxDrops
  /\ \A k \in DOMAIN tasks : tasks[k].pc = "done"
  /\ \E n \in 1..Len(ActiveCards(cards)) :
       drag' = [drag EXCEPT !.activeCard = ActiveCards(cards)[n].id]
  /\ UNCHANGED <<store, req, resp, cards, tasks, run, lastId, handlers>>

\* Board.tsx:94-151  the drag ends over a target or over nothing.
DragEnd ==
  /\ drag.activeCard # 0
  /\ \E over \in OverTargets(cards) :
       LET e == handleDragEnd(cards, drag.activeCard, over) IN
         /\ drag' = [activeCard |-> 0, over |-> over]
         /\ IF e.call
            THEN handleMoveCard(e.cardId, e.newPriority, e.newPosition)
            ELSE UNCHANGED <<store, req, resp, cards, tasks, run, lastId, handlers>>

\* A session of drags, every fetch answered.
NextDrag ==
  \/ DragStart
  \/ DragEnd
  \/ \E k \in 1..MaxDrops :
       \/ ServeMove(k)
       \/ MoveFetchSettled(k)
       \/ ServeList(k)
       \/ loadCardsSettled(k)

\* The stores of a session of drags: those of a page session, any of the
\* cards completed.
DragStores ==
  {[i \in DOMAIN s |-> IF i \in done THEN [s[i] EXCEPT !.status = "done"] ELSE s[i]] :
     s \in ClientStores, done \in SUBSET (1..PageCards)}

\* The page after its first loadCards (part_002:51-56).
InitDrag ==
  /\ store \in DragStores
  /\ req = NoRequest
  /\ resp = NoResponse
  /\ cards \in getCardsByBoard(store, boardId)
  /\ tasks = <<>>
  /\ run = NoRun
  /\ lastId = PageCards
  /\ drag = NoDrag
  /\ handlers = <<>>

SpecDrag == InitDrag /\ [][NextDrag]_vars

\* The step just taken ended a drag over nothing.
Abandoned ==
  drag.activeCard # 0 /\ drag'.activeCard = 0 /\ drag'.over.kind = "null"

\* C15: a drag that ends without a drop target sends no move request and
\* changes neither the page's card list nor the store.
C15_AbandonedDragChangesNothing ==
  [][Abandoned => UNCHANGED <<cards, store, tasks>>]_vars

C15_Witness ==
  /\ drag.activeCard = 0
  /\ drag.over.kind = "null"
  /\ Len(cards) >= 2
  /\ tasks = <<>>

\* ------------------------------------------ claims on the handler's steps
\* C16: every move request that has arrived ends in a response, whatever its
\* store calls do, provided each of them returns or throws.
C16_MoveRequestEnds ==
  (run.pc \notin {"idle", "returned"}) ~> (run.pc = "returned" /\ resp # NoResponse)

C16_Witness ==
  /\ run.pc = "returned"
  /\ resp.status = 200
  /\ run.issued = <<"select", "update35", "update41", "update63">>
  /\ store # run.before

\* The step just taken returned a response.
Responded == resp = NoResponse /\ resp' # NoResponse

\* C18 (as stated): every response to a move request is the success
\* acknowledgement, the missing-fields error or the card-not-found error.
C18_ThreeOutcomes ==
  [][Responded => resp'.status \in {200, 400, 404}]_vars

\* C18 (amended): every response is the success acknowledgement (every
\* statement of the move returned), the missing-fields error 400, the
\* card-not-found error 404 (all fields present, no such card), or the error
\* 500 returned when parsing the body or a store call throws.
C18_FourOutcomes ==
  [][Responded =>
       /\ resp'.status \in {200, 400, 404, 500}
       /\ resp'.status = 200
            => (run.pc = "return67" /\ AllFieldsPresent(req)
                /\ req.cardId \in DOMAIN run.before)
       /\ resp'.status = 400 => (run.pc = "test8" /\ ~AllFieldsPresent(req))
       /\ resp'.status = 404
            => (run.pc = "select16" /\ AllFieldsPresent(req)
                /\ req.cardId \notin DOMAIN store)
       /\ resp'.status = 500 => run.pc \in Updates \cup {"idle", "select16"}]_vars

C18_Witness ==
  /\ run.pc = "returned"
  /\ resp.status = 500
  /\ Len(run.issued) >= 2
  /\ store # run.before

\* ------------------------------------- claims on a move that fails midway
\* The step just taken is the endpoint handling the move of invocation k with
\* a store call throwing after some of its writes.
FailedMidway(k) ==
  /\ tasks[k].pc = "moveSent"
  /\ tasks'[k].pc = "moveDone"
  /\ store' # store
  /\ store' # PUT(store, tasks[k].req).store

ValidMoveRequest ==
  /\ Dense(store)
  /\ \E r \in Requests :
       /\ ValidMove(store, r)
       /\ store' = PUT(store, r).store
  /\ UNCHANGED <<req, resp, cards, tasks, run, lastId, drag, handlers>>

\* part_002:166-178  handleSaveCard for a card whose form has only the status
\* changed: PUT /api/cards?id= with the card's other fields as they are.
StatusEdit ==
  /\ Dense(store)
  /\ \E id \in DOMAIN store, status \in Statuses :
       store' = PUTCard(store, id,
                        [title |-> store[id].title,
                         priority |-> store[id].priority,
                         status |-> status,
                         board_id |-> <<store[id].board_id>>]).store
  /\ UNCHANGED <<req, resp, cards, tasks, run, lastId, drag, handlers>>

NextStatus == ValidMoveRequest \/ StatusEdit

SpecStatus == Init /\ [][NextStatus]_vars

\* The step just taken changed the status of a card.
StatusEdited == \E i \in DOMAIN store : store'[i].status # store[i].status

\* C19: along any serialized sequence of valid moves and status edits, every
\* group's positions, taken over all its cards whatever their status, stay
\* exactly 0..n-1, and a status edit changes no card's position or priority.
C19_MovesAndStatusEditsKeepDense ==
  [][Dense(store) =>
       /\ Dense(store')
       /\ StatusEdited =>
            \A i \in DOMAIN store :
              /\ store'[i].position = store[i].position
              /\ store'[i].priority = store[i].priority]_vars

\* ------------------------------------------- claims on the move algorithm
\* The request moves a card, on the card's board, to another priority.
CrossColumnMove(s, r) ==
  /\ AllFieldsPresent(r)
  /\ r.cardId \in DOMAIN s
  /\ r.boardId = s[r.cardId].board_id
  /\ r.newPriority # s[r.cardId].priority

\* The store holds high:[a:0, b:1] and medium:[x:0] on one board.
ExampleColumns(s, a, b, x) ==
  /\ s[a].board_id = s[b].board_id /\ s[a].board_id = s[x].board_id
  /\ s[a].priority = "high" /\ s[a].position = 0
  /\ s[b].priority = "high" /\ s[b].position = 1
  /\ s[x].priority = "medium" /\ s[x].position = 0

At(s, i, priority, position) ==
  s[i].priority = priority /\ s[i].position = position

\* C20: a cross-column move decrements every source-group sibling positioned
\* after the moved card's old position, increments every target-group sibling
\* positioned at or after the target position, leaves the other siblings of
\* both groups where they are and gives the moved card the target priority
\* and position; from high:[A:0,B:1], medium:[X:0], moving A to medium at 1
\* gives high:[B:0], medium:[X:0,A:1], and at 0 gives medium:[A:0,X:1].
C20_CrossColumnShifts ==
  [][(Handled /\ CrossColumnMove(store, req')) =>
       LET c == req'.cardId
           old == store[c]
           target == req'.newPosition[1]
       IN /\ resp'.status = 200
          /\ At(store', c, req'.newPriority, target)
          /\ \A i \in Group(store, old.board_id, old.priority) \ {c} :
               store'[i].position =
                 IF store[i].position > old.position
                 THEN store[i].position - 1 ELSE store[i].position
          /\ \A i \in Group(store, old.board_id, req'.newPriority) :
               store'[i].position =
                 IF store[i].position >= target
                 THEN store[i].position + 1 ELSE store[i].position
          /\ \A b, x \in DOMAIN store :
               (ExampleColumns(store, c, b, x) /\ req'.newPriority = "medium")
                 => /\ target = 1 =>
                         (/\ At(store', b, "high", 0) /\ At(store', x, "medium", 0)
                          /\ At(store', c, "medium", 1))
                    /\ target = 0 =>
                         (/\ At(store', b, "high", 0) /\ At(store', c, "medium", 0)
                          /\ At(store', x, "medium", 1))]_vars

C20_Witness ==
  /\ resp.status = 200
  /\ resp.statements = <<"select", "update35", "update41", "update63">>
  /\ req.boardId = store[req.cardId].board_id
  /\ req.newPosition = <<0>>
  /\ At(store, req.cardId, "medium", 0)
  /\ \E b, x \in DOMAIN store :
       /\ store[b].board_id = req.boardId /\ At(store, b, "high", 0)
       /\ store[x].board_id = req.boardId /\ At(store, x, "medium", 1)

\* The request moves a card, on the card's board, within its priority.
SameColumnMove(s, r) ==
  /\ AllFieldsPresent(r)
  /\ r.cardId \in DOMAIN s
  /\ r.boardId = s[r.cardId].board_id
  /\ r.newPriority = s[r.cardId].priority

\* The store holds [a:0, b:1, c:2] in one group.
ExampleGroup(s, a, b, c) ==
  /\ s[a].board_id = s[b].board_id /\ s[a].board_id = s[c].board_id
  /\ s[a].priority = s[b].priority /\ s[a].priority = s[c].priority
  /\ s[a].position = 0 /\ s[b].position = 1 /\ s[c].position = 2

\* C21: a same-column move to a higher position decrements exactly the
\* siblings positioned in (oldPosition, targetPosition], gives the moved card
\* targetPosition and changes no other card; from [A:0,B:1,C:2], moving A to
\* 2 gives [B:0,C:1,A:2].
C21_SameColumnDown ==
  [][(/\ Handled
      /\ SameColumnMove(store, req')
      /\ store[req'.cardId].position < req'.newPosition[1]) =>
       LET c == req'.cardId
           old == store[c]
           target == req'.newPosition[1]
       IN /\ resp'.status = 200
          /\ store'[c] = [old EXCEPT !.position = target]
          /\ \A i \in DOMAIN store \ {c} :
               store'[i] =
                 IF /\ i \in Group(store, old.board_id, old.priority)
                    /\ store[i].position > old.position
                    /\ store[i].position <= target
                 THEN [store[i] EXCEPT !.position = @ - 1] ELSE store[i]
          /\ \A b, x \in DOMAIN store :
               (ExampleGroup(store, c, b, x) /\ target = 2)
                 => (/\ store'[b].position = 0 /\ store'[x].position = 1
                     /\ store'[c].position = 2)]_vars

C21_Witness ==
  /\ resp.status = 200
  /\ resp.statements = <<"select", "update49", "update63">>
  /\ req.boardId = store[req.cardId].board_id
  /\ req.newPosition = <<2>>
  /\ \E b, x \in DOMAIN store : ExampleGroup(store, b, x, req.cardId)

\* C22: a same-column move to a lower position increments exactly the
\* siblings positioned in [targetPosition, oldPosition), gives the moved card
\* targetPosition and changes no other card; from [A:0,B:1,C:2], moving B to
\* 0 gives [B:0,A:1,C:2].
C22_SameColumnUp ==
  [][(/\ Handled
      /\ SameColumnMove(store, req')
      /\ store[req'.cardId].position > req'.newPosition[1]) =>
       LET c == req'.cardId
           old == store[c]
           target == req'.newPosition[1]
       IN /\ resp'.status = 200
          /\ store'[c] = [old EXCEPT !.position = target]
          /\ \A i \in DOMAIN store \ {c} :
               store'[i] =
                 IF /\ i \in Group(store, old.board_id, old.priority)
                    /\ store[i].position >= target
                    /\ store[i].position < old.position
                 THEN [store[i] EXCEPT !.position = @ + 1] ELSE store[i]
          /\ \A a, x \in DOMAIN store :
               (ExampleGroup(store, a, c, x) /\ target = 0)
                 => (/\ store'[c].position = 0 /\ store'[a].position = 1
                     /\ store'[x].position = 2)]_vars

C22_Witness ==
  /\ resp.status = 200
  /\ resp.statements = <<"select", "update55", "update63">>
  /\ req.boardId = store[req.cardId].board_id
  /\ req.newPosition = <<0>>
  /\ \E a, x \in DOMAIN store : ExampleGroup(store, req.cardId, a, x)

\* C30: whatever boardId a move request carries, no card of a board other
\* than the moved card's has its position or priority changed.
C30_OtherBoardsUntouched ==
  [][(Handled /\ req'.cardId \in DOMAIN store) =>
       \A i \in DOMAIN store :
         store[i].board_id # store[req'.cardId].board_id
           => /\ store'[i].position = store[i].position
              /\ store'[i].priority = store[i].priority]_vars

\* The request moves a card on the card's board.
MoveOfCard(s, r) == SameColumnMove(s, r) \/ CrossColumnMove(s, r)

\* Row a lies outside the range the move r of the card with row old affects:
\* same column, outside the interval between old and target position;
\* cross-column, in no affected group, or below the old position in the
\* source group, or below the target position in the target group.
OutsideAffectedRange(old, r, a) ==
  LET target == r.newPosition[1]
      inSource == a.board_id = old.board_id /\ a.priority = old.priority
      inTarget == a.board_id = old.board_id /\ a.priority = r.newPriority
  IN IF r.newPriority = old.priority
     THEN \/ ~inSource
          \/ a.position < old.position /\ a.position < target
          \/ a.position > old.position /\ a.position > target
     ELSE \/ ~inSource /\ ~inTarget
          \/ inSource /\ a.position < old.position
          \/ inTarget /\ a.position < target

\* Row a of a card other than the moved one became row a2.
ShiftedAtMostOne(old, r, a, a2) ==
  /\ a2.priority = a.priority
  /\ a2.position - a.position \in {-1, 0, 1}
  /\ OutsideAffectedRange(old, r, a) => a2 = a

\* C24: in a move applied to dense groups, on the server and in the page's
\* optimistic array, every card other than the moved card keeps its priority
\* and changes position by at most 1, and every card outside the affected
\* range does not change at all.
C24_OthersShiftAtMostOne ==
  [][(Handled /\ MoveOfCard(store, req') /\ Dense(store)) =>
       LET c == req'.cardId
           old == store[c]
       IN /\ \A i \in DOMAIN store \ {c} :
               ShiftedAtMostOne(old, req', store[i], store'[i])
          /\ \A cs \in getCardsByBoard(store, old.board_id) :
               LET u == UpdatedCards(cs, FindCard(cs, c), c, req'.newPriority,
                                     req'.newPosition[1])
               IN \A k \in 1..Len(cs) :
                    cs[k].id # c => ShiftedAtMostOne(old, req', cs[k], u[k])]_vars

\* A cross-column move into the middle of a group of two: one sibling of the
\* target group is shifted, the other is not.
C24_Witness ==
  /\ resp.status = 200
  /\ resp.statements = <<"select", "update35", "update41", "update63">>
  /\ req.boardId = store[req.cardId].board_id
  /\ req.newPosition = <<1>>
  /\ \E i, j \in DOMAIN store :
       /\ store[i].board_id = req.boardId /\ store[j].board_id = req.boardId
       /\ At(store, i, req.newPriority, 0)
       /\ At(store, j, req.newPriority, 2)
       /\ At(store, req.cardId, req.newPriority, 1)

\* The number of entries of an array in the column of priority p.
ColumnSize(cs, p) == Cardinality({k \in 1..Len(cs) : cs[k].priority = p})

\* C25: a move creates and deletes no card, on the server and in the page's
\* optimistic array: the card ids are the same before and after; a
\* cross-column move lowers the source group's size by one and raises the
\* target group's size by one, and a same-column move changes no group's size.
C25_MoveKeepsCards ==
  [][Handled =>
       /\ DOMAIN store' = DOMAIN store
       /\ \A i \in DOMAIN store : store'[i].id = store[i].id
       /\ MoveOfCard(store, req') =>
            LET c == req'.cardId
                old == store[c]
                ps == PrioritiesOf(store) \cup {req'.newPriority}
                Change(b, p) ==
                  IF b # old.board_id \/ req'.newPriority = old.priority THEN 0
                  ELSE IF p = old.priority THEN -1
                  ELSE IF p = req'.newPriority THEN 1
                  ELSE 0
             IN /\ \A b \in Boards : \A p \in ps :
                     Cardinality(Group(store', b, p))
                       = Cardinality(Group(store, b, p)) + Change(b, p)
                /\ \A cs \in getCardsByBoard(store, old.board_id) :
                     LET u == UpdatedCards(cs, FindCard(cs, c), c,
                                           req'.newPriority, req'.newPosition[1])
                     IN /\ Len(u) = Len(cs)
                        /\ \A k \in 1..Len(cs) : u[k].id = cs[k].id
                        /\ \A p \in ps :
                             ColumnSize(u, p)
                               = ColumnSize(cs, p) + Change(old.board_id, p)]_vars

\* A cross-column move has left a source group of one and a target group of
\* two.
C25_Witness ==
  /\ resp.status = 200
  /\ resp.statements = <<"select", "update35", "update41", "update63">>
  /\ req.boardId = store[req.cardId].board_id
  /\ Cardinality(Group(store, req.boardId, req.newPriority)) = 2
  /\ \E p \in Priorities \ {req.newPriority} :
       Cardinality(Group(store, req.boardId, p)) = 1

\* The store s with another status, title, description and assignee on
\* every card.
OtherStatus(st) ==
  CASE st = "not_started" -> "in_progress"
    [] st = "in_progress" -> "done"
    [] OTHER -> "not_started"

Repaint(s) ==
  [i \in DOMAIN s |->
     [s[i] EXCEPT !.status = OtherStatus(@), !.title = @ + 100,
                  !.description = @ + 100, !.assignee = @ + 100]]

\* The priority and position of every card of a store, of an array.
Placement(s) == [i \in DOMAIN s |-> <<s[i].priority, s[i].position>>]
PlacementOf(cs) == {<<cs[k].id, cs[k].priority, cs[k].position>> : k \in 1..Len(cs)}

\* C28: the positions and priorities a move produces do not depend on any
\* card's status, title, description or assignee: a store that differs only
\* in those fields holds, after the same request, the same position and
\* priority for every card, and so does the optimistic array of a page
\* that shows it.
C28_PayloadIsOpaque ==
  [][(Handled /\ MoveOfCard(store, req')) =>
       LET other == Repaint(store)
           a == PUT(other, req')
           c == req'.cardId
           Optimistic(s) ==
             {PlacementOf(UpdatedCards(cs, FindCard(cs, c), c, req'.newPriority,
                                       req'.newPosition[1])) :
                cs \in getCardsByBoard(s, store[c].board_id)}
       IN /\ Placement(a.store) = Placement(store')
          /\ a.status = resp'.status
          /\ Optimistic(other) = Optimistic(store)]_vars

\* A cross-column move has shifted a completed card of the target group.
C28_Witness ==
  /\ resp.status = 200
  /\ resp.statements = <<"select", "update35", "update41", "update63">>
  /\ req.boardId = store[req.cardId].board_id
  /\ \E i \in Group(store, req.boardId, req.newPriority) :
       /\ i # req.cardId
       /\ store[i].status = "done"
       /\ store[i].position > req.newPosition[1]
  /\ At(store, req.cardId, req.newPriority, req.newPosition[1])

\* ------------------------------------------------ claims on the drop handler
\* The step just taken ended a drag over a card or a column.
Dropped == drag.activeCard # 0 /\ drag'.activeCard = 0 /\ drag'.over.kind # "null"

\* The indices of the displayed (non-completed) cards of priority p in cs.
Displayed(cs, p) ==
  {k \in 1..Len(cs) : cs[k].status # "done" /\ cs[k].priority = p}

\* C27: a drop on a card X requests X's priority and X's index within the
\* displayed (non-completed) cards of that priority; a drop on a column's drop
\* zone requests the column's priority and the number of cards displayed in
\* it; the request is sent only when the priority or the computed position
\* differs from the dragged card's priority and position.
C27_DropMapsToRequest ==
  [][Dropped =>
       \E a, x \in 1..Len(cards) :
         /\ cards[a].id = drag.activeCard
         /\ drag'.over.kind = "card" => cards[x].id = drag'.over.id
         /\ LET over == drag'.over
                priority == IF over.kind = "card" THEN cards[x].priority
                            ELSE over.priority
                position ==
                  IF over.kind = "card"
                  THEN Cardinality({k \in Displayed(cards, priority) : k < x})
                  ELSE Cardinality(Displayed(cards, priority))
            IN IF priority # cards[a].priority \/ position # cards[a].position
               THEN /\ Len(tasks') = Len(tasks) + 1
                    /\ tasks'[Len(tasks')].req =
                         [cardId |-> drag.activeCard, boardId |-> boardId,
                          newPriority |-> priority, newPosition |-> <<position>>]
               ELSE UNCHANGED <<tasks, cards, store>>]_vars

\* A drop on the drop zone of a column that holds a completed card: the
\* position requested is the number of displayed cards, not the group's size.
C27_Witness ==
  /\ drag.over.kind = "column"
  /\ Len(tasks) = 1
  /\ tasks[1].pc = "moveSent"
  /\ tasks[1].req.newPriority = drag.over.priority
  /\ tasks[1].req.newPosition = <<0>>
  /\ store[tasks[1].req.cardId].priority # drag.over.priority
  /\ Cardinality(Group(store, boardId, drag.over.priority)) = 1

\* C29: a move request the drop handler issues from a display that matches a
\* dense store leaves every group dense once the server has applied it.
C29_DropsKeepDense ==
  [][\A k \in DOMAIN tasks :
       (/\ tasks[k].pc = "moveSent"
        /\ tasks[k].synced
        /\ Dense(store)
        /\ tasks'[k].pc = "moveDone"
        /\ tasks'[k].status = 200) => Dense(store')]_vars

\* ------------------------------------- SpecRepair: a move after a delete
\* route.ts:4-67  a move request handled, from start to end, on a store that
\* a delete has left with a group that is not dense.
MoveAfterDelete ==
  /\ resp = NoResponse
  /\ ~Dense(store)
  /\ \E r \in Requests :
       LET a == PUT(store, r) IN
         /\ store' = a.store
         /\ req' = r
         /\ resp' = [status |-> a.status, statements |-> a.statements]
  /\ UNCHANGED <<cards, tasks, run, lastId, drag, handlers>>

\* Cards are deleted from a dense store; the first move request that finds a
\* damaged store is handled.
NextRepair == DeleteCard \/ MoveAfterDelete

SpecRepair == Init /\ [][NextRepair]_vars

\* The positions of the group (b, p) are exactly 0..n-1.
GroupDense(s, b, p) ==
  LET g == Group(s, b, p) IN
    /\ {s[i].position : i \in g} = 0..(Cardinality(g) - 1)
    /\ \A i, j \in g : s[i].position = s[j].position => i = j

\* C26: once a group has a duplicate or a gap in its positions, the next
\* successful move that touches the group (a valid request whose source or
\* target group it is) leaves the group's positions exactly 0..n-1.
C26_NextMoveRepairs ==
  [][(/\ resp = NoResponse
      /\ resp'.status = 200
      /\ ValidMove(store, req')) =>
       \A p \in {store[req'.cardId].priority, req'.newPriority} :
         ~GroupDense(store, req'.boardId, p)
           => GroupDense(store', req'.boardId, p)]_vars

\* --------------------------------- SpecPair: two concurrent move requests
\* One invocation of the handler of route.ts, run concurrently with another:
\*   pc, oldPriority, oldPosition   as in run
\*   req, status   the body of its request, the HTTP status of its response
\*   read          the store its SELECT read
\*   overlapped    its SELECT ran after the SELECT and before the last
\*                 UPDATE of the other invocation
NoHandler ==
  [pc |-> "idle", req |-> NoRequest, status |-> 0, oldPriority |-> "",
   oldPosition |-> 0, read |-> <<>>, overlapped |-> FALSE]

\* The stores of a board: dense, every card on the page's board.
PairStores ==
  {s \in DenseStoresOf(1..PageCards) : \A i \in 1..PageCards : s[i].board_id = boardId}

\* The bodies sent: a card of the board, one of the three priorities, a
\* position up to the number of cards.
PairRequests ==
  {r \in Requests :
     /\ r.cardId \in 1..PageCards
     /\ r.boardId = boardId
     /\ r.newPriority \in Priorities
     /\ r.newPosition \in {<<n>> : n \in 0..PageCards}}

InitPair ==
  /\ store \in PairStores
  /\ req = NoRequest
  /\ resp = NoResponse
  /\ cards = <<>>
  /\ tasks = <<>>
  /\ run = NoRun
  /\ lastId = PageCards
  /\ drag = NoDrag
  /\ handlers = <<NoHandler, NoHandler>>

\* route.ts:4-6  a request arrives at invocation h and its body parses; the
\* invocations are numbered in the order of arrival.
Arrive(h) ==
  /\ handlers[h].pc = "idle"
  /\ \A g \in 1..(h - 1) : handlers[g].pc # "idle"
  /\ \E r \in PairRequests :
       handlers' = [handlers EXCEPT ![h].pc = "test8", ![h].req = r]
  /\ UNCHANGED <<store, req, resp, cards, tasks, run, lastId, drag>>

\* route.ts:8-13
TestFieldsOf(h) ==
  /\ handlers[h].pc = "test8"
  /\ handlers' =
       IF MissingFields(handlers[h].req)
       THEN [handlers EXCEPT ![h].pc = "returned",
                             ![h].status = StatusFor("missing_fields")]
       ELSE [handlers EXCEPT ![h].pc = "select16"]
  /\ UNCHANGED <<store, req, resp, cards, tasks, run, lastId, drag>>

\* route.ts:16-29  the SELECT of invocation h returns.
SelectOf(h) ==
  /\ handlers[h].pc = "select16"
  /\ LET cardResult == SelectCard(store, handlers[h].req.cardId) IN
       handlers' =
         IF Len(cardResult) = 0
         THEN [handlers EXCEPT ![h].pc = "returned",
                               ![h].status = StatusFor("card_not_found")]
         ELSE [handlers EXCEPT
                 ![h].pc = FirstStatement(handlers[h].req, cardResult[1].priority,
                                          cardResult[1].position),
                 ![h].oldPriority = cardResult[1].priority,
                 ![h].oldPosition = cardResult[1].position,
                 ![h].read = store,
                 ![h].overlapped =
                   \E g \in DOMAIN handlers \ {h} : handlers[g].pc \in Updates]
  /\ UNCHANGED <<store, req, resp, cards, tasks, run, lastId, drag>>

\* route.ts:34-65  the UPDATE at the pc of invocation h returns.
UpdateOf(h) ==
  /\ handlers[h].pc \in Updates
  /\ store' = Execute(handlers[h].pc, store, handlers[h].req,
                      handlers[h].oldPriority, handlers[h].oldPosition)
  /\ handlers' = [handlers EXCEPT ![h].pc = After(handlers[h].pc)]
  /\ UNCHANGED <<req, resp, cards, tasks, run, lastId, drag>>

\* route.ts:67
ReturnSuccessOf(h) ==
  /\ handlers[h].pc = "return67"
  /\ handlers' = [handlers EXCEPT ![h].pc = "returned",
                                  ![h].status = StatusFor("success")]
  /\ UNCHANGED <<store, req, resp, cards, tasks, run, lastId, drag>>

\* Two requests handled concurrently: each store call is awaited, and the
\* other invocation may run at every await.
NextPair ==
  \E h \in 1..2 :
    \/ Arrive(h)
    \/ TestFieldsOf(h)
    \/ SelectOf(h)
    \/ UpdateOf(h)
    \/ ReturnSuccessOf(h)

SpecPair == InitPair /\ [][NextPair]_vars

\* A valid move that, handled alone, keeps the groups dense: the target of a
\* same-column move is below the group's size.
DenseKeepingMove(s, r) ==
  /\ ValidMove(s, r)
  /\ r.newPriority = s[r.cardId].priority
       => r.newPosition[1] < Cardinality(Group(s, r.boardId, r.newPriority))

\* Both requests were such moves in the store they read, and both reported
\* success.
BothSucceeded ==
  /\ Len(handlers) = 2
  /\ \A h \in 1..2 :
       /\ handlers[h].pc = "returned"
       /\ handlers[h].status = 200
       /\ Dense(handlers[h].read)
       /\ DenseKeepingMove(handlers[h].read, handlers[h].req)

\* C23: two move requests that touch the same group and whose read-then-write
\* steps interleave can end, both reporting success, in a store where that
\* group has a duplicate or a skipped position (C23_Witness is reachable from
\* a dense store); it takes the interleaving: when neither SELECT ran between
\* the SELECT and the last UPDATE of the other request, the store is dense.
C23_SerialMovesKeepDense ==
  (BothSucceeded /\ \A h \in 1..2 : ~handlers[h].overlapped) => Dense(store)

\* Both requests read the same dense store, both move a card into the same
\* group, both report success, and that group is not dense.
C23_Witness ==
  /\ BothSucceeded
  /\ handlers[2].overlapped
  /\ handlers[1].read = handlers[2].read
  /\ handlers[1].req.newPriority = handlers[2].req.newPriority
  /\ ~GroupDense(store, boardId, handlers[1].req.newPriority)

====
